---- MODULE Spec2Model ----
(***************************************************************************)
(* Asset tracker API: price adapters, cache, batch fetcher, metrics and    *)
(* routes.  Two deployments of the /api/v1 server are modelled:            *)
(*   "server"  src/unnamed/part_000 lines 257-559 (server.js, cached)      *)
(*   "index"   src/index.js (no cache, sequential batch)                   *)
(* and two deployments of the /api/assets server:                          *)
(*   "ticker"  src/unnamed/part_000 lines 1-256                            *)
(*   "chunked" src/unnamed/part_001                                        *)
(* JavaScript numbers that the metrics produce are carried as exact        *)
(* rationals plus the IEEE values Infinity and NaN.                        *)
(***************************************************************************)
EXTENDS Integers, Sequences, FiniteSets, TLC

VARIABLES
    variant,    \* which deployment runs
    now,        \* the clock (Date.now()), in seconds
    cache,      \* NodeCache: a set of entries [key, v, t] (t: expiry)
    reqs,       \* the HTTP requests received so far, in order of arrival
    lastSet,    \* history: per cache key, when a fetch last stored a result
    op, arg, ret  \* a direct call of a metrics function, its argument and result

vars == <<variant, now, cache, reqs, lastSet, op, arg, ret>>
apiVars == <<variant, now, cache, reqs, lastSet>>
metricVars == <<op, arg, ret>>

Variants == {"server", "index"}

\* ------------------------------------------------------------------ bounds
MaxQuotes == 3
MaxUniverse == 4
MaxRequests == 2
MaxTicks == 2
MaxInFlight == 1

\* Price series the metrics are exercised on (closes, chronological).
SeriesPool ==
    { <<>>, <<1>>, <<1, 2>>, <<2, 1>>, <<1, 1>>, <<2, 2>>, <<2, 3>>,
      <<0, 1>>, <<0, 0>>, <<4, 4, 5>> }

\* ------------------------------------------------------- JavaScript numbers
Fin(n, d) == [k |-> "fin", n |-> n, d |-> d]
Infinity(s) == [k |-> "inf", n |-> s, d |-> 0]
NaN == [k |-> "nan", n |-> 0, d |-> 0]
Zero == Fin(0, 1)

Min(a, b) == IF a < b THEN a ELSE b

Sign(i) == IF i > 0 THEN 1 ELSE IF i < 0 THEN -1 ELSE 0

\* a / b for integers a, b as JavaScript computes it (b >= 0 here).
JsDiv(a, b) ==
    IF b = 0 THEN (IF a = 0 THEN NaN ELSE Infinity(Sign(a)))
    ELSE IF b < 0 THEN Fin(-a, -b) ELSE Fin(a, b)

\* x * c for a positive integer c.
JsScale(x, c) == IF x.k = "fin" THEN Fin(x.n * c, x.d) ELSE x

\* Sign of x - y; 2 stands for a NaN difference.
JsSubSign(x, y) ==
    IF x.k = "nan" \/ y.k = "nan" THEN 2
    ELSE IF x.k = "inf" /\ y.k = "inf" THEN (IF x.n = y.n THEN 2 ELSE x.n)
    ELSE IF x.k = "inf" THEN x.n
    ELSE IF y.k = "inf" THEN -y.n
    ELSE Sign(x.n * y.d - y.n * x.d)

\* x < y, x > y, x == y on JavaScript numbers (any comparison with NaN is false).
JsLess(x, y) == JsSubSign(x, y) = -1
JsGreater(x, y) == JsSubSign(x, y) = 1
JsEq(x, y) ==
    /\ x.k # "nan" /\ y.k # "nan"
    /\ IF x.k = "inf" \/ y.k = "inf" THEN x = y ELSE x.n * y.d = y.n * x.d

\* ------------------------------------------------------------------ metrics
RECURSIVE SumSeq(_)
SumSeq(s) == IF s = <<>> THEN 0 ELSE Head(s) + SumSeq(Tail(s))

calculateChangeServer(prices) ==
    IF Len(prices) < 2 THEN Zero
    ELSE LET first == prices[1]
             last == prices[Len(prices)]
         IN IF first = 0 THEN Zero
            ELSE JsScale(JsDiv(last - first, first), 100)

calculateChangeIndex(prices) ==
    IF Len(prices) < 2 THEN Zero
    ELSE LET first == prices[1]
             last == prices[Len(prices)]
         IN JsScale(JsDiv(last - first, first), 100)

calculateChange(v, prices) ==
    IF v = "server" THEN calculateChangeServer(prices)
    ELSE calculateChangeIndex(prices)

\* volatility_pct is carried as its square, an exact rational:
\* (sqrt(variance) / mean * 100)^2 = 10000 * (n * sum(x^2) - S^2) / S^2.
\* Prices are non-negative, so the value is non-negative and both its order
\* and its comparison with a non-negative threshold are those of the square.
VolSquared(prices) ==
    LET n == Len(prices)
        S == SumSeq(prices)
        Q == SumSeq([i \in 1..n |-> prices[i] * prices[i]])
    IN JsDiv(10000 * (n * Q - S * S), S * S)

calculateVolatilityServer(prices) ==
    IF Len(prices) < 2 THEN Zero
    ELSE IF SumSeq(prices) = 0 THEN Zero
    ELSE VolSquared(prices)

calculateVolatilityIndex(prices) ==
    IF Len(prices) < 2 THEN Zero ELSE VolSquared(prices)

calculateVolatility(v, prices) ==
    IF v = "server" THEN calculateVolatilityServer(prices)
    ELSE calculateVolatilityIndex(prices)

\* ------------------------------------------------------ Array.prototype.sort
\* The comparators handed to sort; a NaN result counts as 0.
compareFn(mode, a, b) ==
    LET s == IF mode = "gainers" THEN JsSubSign(b.pct_change, a.pct_change)
             ELSE IF mode = "losers" THEN JsSubSign(a.pct_change, b.pct_change)
             ELSE JsSubSign(a.volatility_pct, b.volatility_pct)
    IN IF s = 2 THEN 0 ELSE s

Reverse(s) == [i \in 1..Len(s) |-> s[Len(s) + 1 - i]]

\* Length of the initial run (elements 1..r), as the engine's merge sort counts it.
RECURSIVE RunLength(_, _, _, _)
RunLength(s, mode, desc, r) ==
    IF r < Len(s)
       /\ LET o == compareFn(mode, s[r + 1], s[r])
          IN IF desc THEN o < 0 ELSE o >= 0
    THEN RunLength(s, mode, desc, r + 1)
    ELSE r

RECURSIVE BinarySearch(_, _, _, _, _)
BinarySearch(s, mode, pivot, left, right) ==
    IF left < right
    THEN LET mid == left + ((right - left) \div 2)
         IN IF compareFn(mode, pivot, s[mid]) < 0
            THEN BinarySearch(s, mode, pivot, left, mid)
            ELSE BinarySearch(s, mode, pivot, mid + 1, right)
    ELSE left

RECURSIVE BinaryInsertionSort(_, _, _)
BinaryInsertionSort(s, mode, start) ==
    IF start > Len(s) THEN s
    ELSE LET pivot == s[start]
             pos == BinarySearch(s, mode, pivot, 1, start)
             moved == [i \in 1..Len(s) |->
                         IF i < pos THEN s[i]
                         ELSE IF i = pos THEN pivot
                         ELSE IF i <= start THEN s[i - 1]
                         ELSE s[i]]
         IN BinaryInsertionSort(moved, mode, start + 1)

\* A sort that orders correctly but reverses the input order of equal elements.
sortTiesReversed(s, mode) ==
    IF mode = "stable" THEN BinaryInsertionSort(s, mode, 2)
    ELSE Reverse(BinaryInsertionSort(s, IF mode = "gainers" THEN "losers" ELSE "gainers", 2))

\* data.sort(compareFn) for the short arrays of this program: one counted run
\* (reversed when strictly descending) extended by binary insertion.
sort(s, mode) ==
    IF Len(s) < 2 THEN s
    ELSE LET desc == compareFn(mode, s[2], s[1]) < 0
             r == RunLength(s, mode, desc, 2)
             run == IF desc
                    THEN Reverse(SubSeq(s, 1, r)) \o SubSeq(s, r + 1, Len(s))
                    ELSE s
         IN BinaryInsertionSort(run, mode, r + 1)

slice(s, n) == SubSeq(s, 1, IF n < Len(s) THEN n ELSE Len(s))

\* ------------------------------------------------------------ categorization
WithChange(v, d) ==
    [symbol |-> d.symbol, prices |-> d.prices, current_price |-> d.current_price,
     pct_change |-> calculateChange(v, d.prices)]

WithVolatility(v, d) ==
    [symbol |-> d.symbol, prices |-> d.prices, current_price |-> d.current_price,
     volatility_pct |-> calculateVolatility(v, d.prices)]

getGainers(v, data, limit) ==
    slice(sort([i \in 1..Len(data) |-> WithChange(v, data[i])], "gainers"), limit)

getLosers(v, data, limit) ==
    slice(sort([i \in 1..Len(data) |-> WithChange(v, data[i])], "losers"), limit)

\* volThreshold is a non-negative integer percentage; volatility_pct is squared.
BelowThreshold(vol, volThreshold) ==
    JsLess(vol, Fin(volThreshold * volThreshold, 1))

getStable(v, data, limit, volThreshold) ==
    LET mapped == [i \in 1..Len(data) |-> WithVolatility(v, data[i])]
        filtered == SelectSeq(mapped,
                        LAMBDA d : BelowThreshold(d.volatility_pct, volThreshold))
    IN slice(sort(filtered, "stable"), limit)

\* ========================================================= price adapters
Null == "null"

\* current_price is <<>> when absent (null or undefined) and <<c>> when a number.
ErrorPayload(msg) == [current_price |-> <<>>, candles |-> <<>>, error |-> msg]

Candle(t, o, h, l, c, v) == [timestamp |-> t, o |-> o, h |-> h, l |-> l, c |-> c, v |-> v]

\* What a provider call can yield:
\*   kind "throw"        the call rejects (network error, timeout, HTTP error)
\*   kind "nobody"       no result / response.data is null or undefined
\*   kind "nocontainer"  a body without the quotes array / rates object / array
\*   kind "rows"         the container, holding rows (possibly none)
\* A stock or crypto row is a bar, or null (kind "null"); a forex row is one
\* date of the rates object in the order the provider lists it: a rate, a day
\* without the quoted currency (kind "norate") or a null day (kind "null").
Throw(msg) == [kind |-> "throw", msg |-> msg, rows |-> <<>>]
NoBody == [kind |-> "nobody", msg |-> "", rows |-> <<>>]
NoContainer == [kind |-> "nocontainer", msg |-> "", rows |-> <<>>]
Rows(rows) == [kind |-> "rows", msg |-> "", rows |-> rows]

Bar(d, o, c) ==
    [kind |-> "bar", date |-> d, open |-> o, high |-> IF o > c THEN o ELSE c,
     low |-> IF o > c THEN c ELSE o, close |-> c, volume |-> 0]
NullRow == [kind |-> "null", date |-> 0, open |-> 0, high |-> 0, low |-> 0,
            close |-> 0, volume |-> 0]
Rate(d, r) == [kind |-> "rate", date |-> d, rate |-> r]
NoRate(d) == [kind |-> "norate", date |-> d, rate |-> 0]
NullDay(d) == [kind |-> "null", date |-> d, rate |-> 0]

\* The body of a try block either returns a payload or throws.
Return(payload) == [k |-> "return", v |-> payload, msg |-> ""]
Raise(msg) == [k |-> "throw", v |-> ErrorPayload(""), msg |-> msg]

HasNull(rows) == \E i \in 1..Len(rows) : rows[i].kind = "null"

BarCandles(rows) ==
    [i \in 1..Len(rows) |->
        Candle(rows[i].date, rows[i].open, rows[i].high, rows[i].low,
               rows[i].close, rows[i].volume)]

LastClose(candles) == <<candles[Len(candles)].c>>

\* --- server.js (src/unnamed/part_000)
stockBodyServer(resp) ==
    IF resp.kind = "throw" THEN Raise(resp.msg)
    ELSE IF resp.kind # "rows" \/ resp.rows = <<>>
    THEN Return(ErrorPayload("No stock data"))
    ELSE IF HasNull(resp.rows) THEN Raise("TypeError")
    ELSE LET candles == BarCandles(resp.rows)
         IN Return([current_price |-> LastClose(candles), candles |-> candles,
                    error |-> Null])

cryptoBodyServer(resp) ==
    IF resp.kind = "throw" THEN Raise(resp.msg)
    ELSE IF resp.kind # "rows" \/ resp.rows = <<>>
    THEN Return(ErrorPayload("No crypto data"))
    ELSE IF HasNull(resp.rows) THEN Raise("TypeError")
    ELSE LET candles == [i \in 1..Len(resp.rows) |->
                            Candle(resp.rows[i].date, resp.rows[i].open,
                                   resp.rows[i].high, resp.rows[i].low,
                                   resp.rows[i].close, 0)]
         IN Return([current_price |-> LastClose(candles), candles |-> candles,
                    error |-> Null])

\* Object.keys(rates).sort(): ISO dates, so the order is chronological.
RECURSIVE SortByDate(_)
SortByDate(rows) ==
    IF rows = <<>> THEN <<>>
    ELSE LET m == CHOOSE i \in 1..Len(rows) :
                     \A j \in 1..Len(rows) : rows[i].date <= rows[j].date
         IN <<rows[m]>> \o
            SortByDate([i \in 1..(Len(rows) - 1) |->
                           IF i < m THEN rows[i] ELSE rows[i + 1]])

\* rate || 0
Closes(rows) == [i \in 1..Len(rows) |-> IF rows[i].kind = "rate" THEN rows[i].rate ELSE 0]

\* o: i === 0 ? close : closes[i - 1] || close
ForexCandles(rows) ==
    LET closes == Closes(rows)
    IN [i \in 1..Len(rows) |->
           Candle(rows[i].date,
                  IF i = 1 THEN closes[i]
                  ELSE IF closes[i - 1] # 0 THEN closes[i - 1] ELSE closes[i],
                  closes[i], closes[i], closes[i], 0)]

forexBodyServer(resp) ==
    IF resp.kind = "throw" THEN Raise(resp.msg)
    ELSE IF resp.kind # "rows" \/ resp.rows = <<>>
    THEN Return(ErrorPayload("No forex rates"))
    ELSE IF HasNull(resp.rows) THEN Raise("TypeError")
    ELSE LET candles == ForexCandles(SortByDate(resp.rows))
         IN Return([current_price |-> LastClose(candles), candles |-> candles,
                    error |-> Null])

\* catch (err) { ... return { current_price: null, candles: [], error: msg } }
CatchServer(body) ==
    IF body.k = "throw" THEN Return(ErrorPayload(body.msg)) ELSE body

\* --- index.js (src/index.js)
stockBodyIndex(resp) ==
    IF resp.kind = "throw" THEN Raise(resp.msg)
    ELSE IF resp.kind # "rows" THEN Raise("No data")
    ELSE IF resp.rows = <<>> THEN Raise("TypeError")
    ELSE IF HasNull(resp.rows) THEN Raise("TypeError")
    ELSE LET currentPrice == <<resp.rows[Len(resp.rows)].close>>
         IN Return([current_price |-> currentPrice,
                    candles |-> BarCandles(resp.rows), error |-> Null])

cryptoBodyIndex(resp) ==
    IF resp.kind = "throw" THEN Raise(resp.msg)
    ELSE IF resp.kind = "nobody" THEN Raise("No data")
    ELSE IF resp.kind = "nocontainer" THEN Raise("TypeError")
    ELSE IF resp.rows = <<>> THEN Raise("No data")
    ELSE IF HasNull(resp.rows) THEN Raise("TypeError")
    ELSE LET currentPrice == <<resp.rows[Len(resp.rows)].close>>
             candles == [i \in 1..Len(resp.rows) |->
                            Candle(resp.rows[i].date, resp.rows[i].open,
                                   resp.rows[i].high, resp.rows[i].low,
                                   resp.rows[i].close, 0)]
         IN Return([current_price |-> currentPrice, candles |-> candles,
                    error |-> Null])

forexBodyIndex(resp) ==
    IF resp.kind = "throw" THEN Raise(resp.msg)
    ELSE IF resp.kind = "nobody" THEN Raise("TypeError")
    ELSE IF resp.kind = "nocontainer" THEN Raise("No rates data")
    ELSE IF HasNull(resp.rows) THEN Raise("TypeError")
    ELSE LET closes == Closes(resp.rows)
             currentPrice == IF closes = <<>> THEN <<>> ELSE <<closes[Len(closes)]>>
         IN Return([current_price |-> currentPrice,
                    candles |-> ForexCandles(resp.rows), error |-> Null])

\* catch (e) { return { current_price: null, candles: [], error: e.message } }
CatchIndex(body) ==
    IF body.k = "throw" THEN Return(ErrorPayload(body.msg)) ELSE body

\* The adapters from the provider's answer on: how the call settles.
fetchStockPrice(v, resp) ==
    IF v = "server" THEN CatchServer(stockBodyServer(resp))
    ELSE CatchIndex(stockBodyIndex(resp))

fetchCryptoPrice(v, resp) ==
    IF v = "server" THEN CatchServer(cryptoBodyServer(resp))
    ELSE CatchIndex(cryptoBodyIndex(resp))

fetchForexPrice(v, resp) ==
    IF v = "server" THEN CatchServer(forexBodyServer(resp))
    ELSE CatchIndex(forexBodyIndex(resp))

Adapter(v, cls, resp) ==
    IF cls = "stocks" THEN fetchStockPrice(v, resp)
    ELSE IF cls = "crypto" THEN fetchCryptoPrice(v, resp)
    ELSE fetchForexPrice(v, resp)

\* Provider answers the adapters are exercised on.  A batch draws each of its
\* calls from the core answers, a single-symbol lookup from all of them.
CoreBarResponses ==
    { Throw("timeout"), NoContainer, Rows(<<>>),
      Rows(<<Bar(1, 1, 1), Bar(2, 1, 2)>>),
      Rows(<<Bar(1, 2, 2)>>) }

BarResponses ==
    CoreBarResponses \cup { NoBody, Rows(<<Bar(1, 1, 1), NullRow>>) }

CoreRateResponses ==
    { Throw("timeout"), NoContainer, Rows(<<>>),
      Rows(<<Rate(2, 2), Rate(1, 1)>>),
      Rows(<<NoRate(1), NoRate(2)>>) }

RateResponses ==
    CoreRateResponses
    \cup { NoBody, Rows(<<Rate(1, 1), NullDay(2)>>), Rows(<<Rate(1, 2), Rate(2, 2)>>) }

Responses(route, cls) ==
    IF route = "price"
    THEN (IF cls = "forex" THEN RateResponses ELSE BarResponses)
    ELSE (IF cls = "forex" THEN CoreRateResponses ELSE CoreBarResponses)

\* Provider answers under repeated lookups: a failure, an empty payload, a series.
CacheResponses(route, cls) ==
    IF cls = "forex"
    THEN { Throw("timeout"), Rows(<<>>), Rows(<<Rate(2, 2), Rate(1, 1)>>) }
    ELSE { Throw("timeout"), Rows(<<>>), Rows(<<Bar(1, 1, 1), Bar(2, 1, 2)>>) }

Answers(pool, route, cls) ==
    IF pool = "cache" THEN CacheResponses(route, cls) ELSE Responses(route, cls)

\* ================================================================== cache
stdTTL == 60

cacheKey(cls, symbol, period) ==
    <<IF cls = "stocks" THEN "stock" ELSE cls, symbol, period>>

\* node-cache: an entry is expired once its t lies before the clock.
Expired(e, t) == e.t < t

\* cache.get(key): <<value>> on a hit, <<>> on a miss.
cacheGet(c, key, t) ==
    IF \E e \in c : e.key = key /\ ~Expired(e, t)
    THEN <<(CHOOSE e \in c : e.key = key /\ ~Expired(e, t)).v>>
    ELSE <<>>

\* cache.get deletes the entry it finds expired.
cacheAfterGet(c, keys, t) == {e \in c : ~(e.key \in keys /\ Expired(e, t))}

\* A cache that keeps successful results only.
cacheSetSuccessOnly(c, key, value, t) ==
    IF value.error # Null THEN c
    ELSE {e \in c : e.key # key} \cup {[key |-> key, v |-> value, t |-> t + stdTTL]}

\* cache.set(key, value): stored with the standard TTL.
cacheSet(c, key, value, t) ==
    {e \in c : e.key # key} \cup {[key |-> key, v |-> value, t |-> t + stdTTL]}

\* ======================================================= symbols and batch
STOCK_SYMBOLS == <<"AAPL", "MSFT", "GOOGL", "TSLA", "AMZN", "NVDA", "META", "BRK-B", "JPM", "V">>
CRYPTO_SYMBOLS == <<"bitcoin", "ethereum", "binancecoin", "ripple", "cardano", "solana",
                    "dogecoin", "tron", "avalanche-2", "shiba-inu">>
FOREX_PAIRS == <<"EURUSD", "GBPUSD", "USDJPY", "USDCHF", "AUDUSD", "USDCAD", "NZDUSD", "USDZAR">>

AssetClasses == {"stocks", "crypto", "forex"}

\* The configured universe, cut to its first MaxUniverse symbols.
Prefix(s, n) == SubSeq(s, 1, Min(n, Len(s)))

\* mapping[assetType] || []
mapping(assetType) ==
    IF assetType = "stocks" THEN Prefix(STOCK_SYMBOLS, MaxUniverse)
    ELSE IF assetType = "crypto" THEN Prefix(CRYPTO_SYMBOLS, MaxUniverse)
    ELSE IF assetType = "forex" THEN Prefix(FOREX_PAIRS, MaxUniverse)
    ELSE <<>>

\* symbols.slice(0, Math.min(limit * 3, symbols.length))
batchSymbols(assetType, limit) ==
    LET symbols == mapping(assetType)
    IN SubSeq(symbols, 1, Min(limit * 3, Len(symbols)))

\* The timeout, in seconds, the adapter hands to its provider call; 0 when it
\* hands none.  server.js: axios.get(url, { timeout: 10000 }) for crypto and
\* forex, yahooFinance.chart(symbol, { range, interval }) for stocks.  index.js:
\* axios.get(url) and yahooFinance.chart(query, { interval, range }).
callTimeout(v, cls) ==
    IF v = "server" /\ cls \in {"crypto", "forex"} THEN 10 ELSE 0

\* One adapter call: the cache lookup and, on a miss, the provider call.
StartTask(v, c, t, ls, cls, symbol, period) ==
    LET key == cacheKey(cls, symbol, period)
        cached == IF v = "server" THEN cacheGet(c, key, t) ELSE <<>>
        prev == {e.at : e \in {x \in ls : x.key = key}}
    IN [symbol |-> symbol, cls |-> cls, period |-> period,
        st |-> IF cached # <<>> THEN "fulfilled" ELSE "pending",
        data |-> IF cached # <<>> THEN cached[1] ELSE ErrorPayload(""),
        upstream |-> cached = <<>>, answer |-> "none",
        startedAt |-> t, prevSet |-> prev, timeout |-> callTimeout(v, cls)]

\* An answer that delivers no series: an exception or timeout, a missing or
\* empty container, a null row.
Failure(resp) == resp.kind # "rows" \/ resp.rows = <<>> \/ HasNull(resp.rows)

\* The provider answers: the adapter call settles.
SettleTask(v, task, resp) ==
    LET out == Adapter(v, task.cls, resp)
    IN [task EXCEPT !.st = IF out.k = "throw" THEN "rejected" ELSE "fulfilled",
                    !.data = out.v,
                    !.answer = IF Failure(resp) THEN "failure" ELSE "data"]

Settled(tasks) == \A i \in 1..Len(tasks) : tasks[i].st # "pending"

\* fetchTopAssets: keep the calls that succeeded, as quotes, in batch order.
Succeeded(task) ==
    task.st = "fulfilled" /\ task.data.error = Null /\ task.data.candles # <<>>

\* A batch that stops at its first failed call.
RECURSIVE UntilFailure(_)
UntilFailure(tasks) ==
    IF tasks = <<>> \/ ~Succeeded(Head(tasks)) THEN <<>>
    ELSE <<Head(tasks)>> \o UntilFailure(Tail(tasks))

collectUntilFailure(tasks) ==
    LET ok == UntilFailure(tasks)
    IN [i \in 1..Len(ok) |->
           [symbol |-> ok[i].symbol,
            prices |-> [j \in 1..Len(ok[i].data.candles) |-> ok[i].data.candles[j].c],
            current_price |-> ok[i].data.current_price]]

\* A batch whose results come back last call first.
collectReversed(tasks) ==
    LET ok == SelectSeq(tasks, Succeeded)
    IN [i \in 1..Len(ok) |->
           [symbol |-> ok[Len(ok) + 1 - i].symbol,
            prices |-> [j \in 1..Len(ok[Len(ok) + 1 - i].data.candles) |->
                          ok[Len(ok) + 1 - i].data.candles[j].c],
            current_price |-> ok[Len(ok) + 1 - i].data.current_price]]

collectResults(tasks) ==
    LET ok == SelectSeq(tasks, Succeeded)
    IN [i \in 1..Len(ok) |->
           [symbol |-> ok[i].symbol,
            prices |-> [j \in 1..Len(ok[i].data.candles) |-> ok[i].data.candles[j].c],
            current_price |-> ok[i].data.current_price]]

\* ================================================================= routes
\* A query token: "" stands for a parameter that is absent or empty.
PeriodTokens == {"", "1h", "2d"}
\* Numeric query parameters as parseInt / parseFloat read them.
Absent == [k |-> "absent", n |-> 0]
Num(n) == [k |-> "num", n |-> n]
LimitTokens == {Absent, Num(1)}
VolTokens == {Absent, Num(0), Num(0 - 1), Num(40), Num(60)}

IsNaN(tok) == tok.k # "num"
Clamp(x, lo, hi) == IF x < lo THEN lo ELSE IF x > hi THEN hi ELSE x

\* Math.min(Math.max(parseInt(req.query.limit, 10) || 10, 1), 50)
parseLimit(tok) == Clamp(IF IsNaN(tok) \/ tok.n = 0 THEN 10 ELSE tok.n, 1, 50)

\* Math.min(Math.max(parseFloat(req.query.vol_threshold) || 2.0, 0), 50)
parseVolThreshold(tok) == Clamp(IF IsNaN(tok) \/ tok.n = 0 THEN 2 ELSE tok.n, 0, 50)

\* A reader that falls back to the default on any unknown token.
orDefaultLenient(tok, dflt) == IF tok \in {"1h", "1d", "1w"} THEN tok ELSE dflt

\* req.query.period || dflt
orDefault(tok, dflt) == IF tok = "" THEN dflt ELSE tok

AllowedPeriods(route) == IF route = "stable" THEN {"1d", "1w"} ELSE {"1h", "1d", "1w"}
DefaultPeriod(route) == IF route = "stable" THEN "1w" ELSE "1d"

\* The limit the route hands to fetchTopAssets.
fetchLimit(v, limit) == IF v = "server" THEN limit ELSE limit * 3

NoBodyYet == [error |-> "", result |-> ErrorPayload(""), items |-> <<>>, total_fetched |-> 0]

Request(route, assetType, symbol, periodTok, limitTok, volTok) ==
    [route |-> route, asset_type |-> assetType, symbol |-> symbol,
     periodTok |-> periodTok, limitTok |-> limitTok, volTok |-> volTok,
     period |-> orDefault(periodTok, DefaultPeriod(route)),
     limit |-> parseLimit(limitTok), vol_threshold |-> parseVolThreshold(volTok),
     batch |-> <<>>, tasks |-> <<>>, fetched |-> <<>>, outOfOrder |-> FALSE,
     st |-> "waiting", status |-> 0, body |-> NoBodyYet]

Reply(req, status, body) == [req EXCEPT !.st = "done", !.status = status, !.body = body]

ErrorBody(msg) == [NoBodyYet EXCEPT !.error = msg]

\* GET /api/v1/price/:asset_type/:symbol up to its first await.
priceHandler(v, c, t, ls, assetType, symbol, periodTok) ==
    LET req == Request("price", assetType, symbol, periodTok, Absent, Absent)
    IN IF req.period \notin AllowedPeriods("price")
       THEN Reply(req, 400, ErrorBody("Invalid period. Use 1h, 1d, or 1w."))
       ELSE IF assetType \in AssetClasses
       THEN [req EXCEPT !.batch = <<symbol>>,
                        !.tasks = <<StartTask(v, c, t, ls, assetType, symbol, req.period)>>]
       ELSE Reply(req, 400, ErrorBody("Unsupported asset_type. Use stocks, crypto, or forex."))

\* GET /api/v1/gainers|losers|stable/:asset_type up to its first await:
\* validation, then fetchTopAssets launching its adapter calls (all of them in
\* server.js, the first of the loop in index.js).
rankHandler(v, c, t, ls, route, assetType, limitTok, periodTok, volTok) ==
    LET req == Request(route, assetType, "", periodTok, limitTok, volTok)
        batch == batchSymbols(assetType, fetchLimit(v, req.limit))
        launched == IF v = "server" THEN Len(batch) ELSE Min(1, Len(batch))
    IN IF req.period \notin AllowedPeriods(route)
       THEN Reply(req, 400,
                  ErrorBody(IF route = "stable"
                            THEN "Invalid timeframe for stable. Use 1d or 1w."
                            ELSE "Invalid timeframe. Use 1h, 1d, or 1w."))
       ELSE [req EXCEPT !.batch = batch,
                        !.tasks = [i \in 1..launched |->
                                      StartTask(v, c, t, ls, assetType, batch[i], req.period)]]

TaskKeys(req) ==
    {cacheKey(req.tasks[i].cls, req.tasks[i].symbol, req.tasks[i].period) :
        i \in 1..Len(req.tasks)}

\* The response once every adapter call of the request has settled.
respond(v, req) ==
    IF req.route = "price"
    THEN LET task == req.tasks[1]
         IN IF task.st = "rejected" THEN Reply(req, 500, ErrorBody("unhandled rejection"))
            ELSE IF task.data.error # Null
            THEN Reply(req, 404, ErrorBody(task.data.error))
            ELSE Reply(req, 200, [NoBodyYet EXCEPT !.result = task.data])
    ELSE LET data == collectResults(req.tasks)
             items == IF req.route = "gainers" THEN getGainers(v, data, req.limit)
                      ELSE IF req.route = "losers" THEN getLosers(v, data, req.limit)
                      ELSE getStable(v, data, req.limit, req.vol_threshold)
         IN [Reply(req, 200, [NoBodyYet EXCEPT !.items = items,
                                               !.total_fetched = Len(data)])
                EXCEPT !.fetched = data]

\* ---------------------------------------------------------------- actions
PriceRequestOn(assetTypes, periodTokens) ==
    \E assetType \in assetTypes, periodTok \in periodTokens :
       \E symbol \in IF assetType = "bonds" THEN {"T10Y"} ELSE {mapping(assetType)[1]} :
          LET req == priceHandler(variant, cache, now, lastSet, assetType, symbol, periodTok)
          IN /\ reqs' = Append(reqs, req)
             /\ cache' = IF variant = "server"
                         THEN cacheAfterGet(cache, TaskKeys(req), now) ELSE cache
             /\ UNCHANGED <<variant, now, lastSet, metricVars>>

RankRequest ==
    \E route \in {"gainers", "losers", "stable"}, assetType \in AssetClasses \cup {"bonds"},
       limitTok \in LimitTokens, periodTok \in PeriodTokens,
       volTok \in VolTokens :
          /\ route # "stable" => volTok = Absent
          /\ LET req == rankHandler(variant, cache, now, lastSet, route, assetType,
                                    limitTok, periodTok, volTok)
             IN /\ reqs' = Append(reqs, req)
                /\ cache' = IF variant = "server"
                            THEN cacheAfterGet(cache, TaskKeys(req), now) ELSE cache
                /\ UNCHANGED <<variant, now, lastSet, metricVars>>

\* The pending adapter call i of request r settles on the answer resp.
\* server.js stores the result in the cache; the loop of index.js then launches
\* its next adapter call.
Settle(r, i, resp) ==
    LET req == reqs[r]
        task == SettleTask(variant, req.tasks[i], resp)
        key == cacheKey(task.cls, task.symbol, task.period)
        stored == variant = "server" /\ task.st = "fulfilled"
        more == variant = "index" /\ Len(req.tasks) < Len(req.batch)
        next == StartTask(variant, cache, now, lastSet, req.asset_type,
                          req.batch[Len(req.tasks) + 1], req.period)
        tasks == [req.tasks EXCEPT ![i] = task]
    IN /\ reqs' = [reqs EXCEPT ![r].tasks =
                       IF more THEN Append(tasks, next) ELSE tasks,
                    ![r].outOfOrder =
                       @ \/ \E j \in 1..(i - 1) : req.tasks[j].st = "pending"]
       /\ cache' = IF stored THEN cacheSet(cache, key, task.data, now)
                   ELSE cache
       /\ lastSet' = IF stored
                     THEN {e \in lastSet : e.key # key}
                          \cup {[key |-> key, at |-> now]}
                     ELSE lastSet
       /\ UNCHANGED <<variant, now, metricVars>>

\* A provider answers a pending adapter call.
UpstreamRespondsFrom(pool) ==
    \E r \in 1..Len(reqs) :
       \E i \in 1..Len(reqs[r].tasks) :
          /\ reqs[r].st = "waiting"
          /\ reqs[r].tasks[i].st = "pending"
          /\ \E resp \in Answers(pool, reqs[r].route, reqs[r].tasks[i].cls) :
                Settle(r, i, resp)

\* The timer of a provider call that was given a timeout fires before the
\* provider has answered: the call rejects.
TimeoutFires ==
    \E r \in 1..Len(reqs) :
       \E i \in 1..Len(reqs[r].tasks) :
          /\ reqs[r].st = "waiting"
          /\ reqs[r].tasks[i].st = "pending"
          /\ reqs[r].tasks[i].timeout > 0
          /\ Settle(r, i, Throw("timeout of 10000ms exceeded"))

\* Every adapter call of the request has settled: the handler resumes and replies.
Respond ==
    \E r \in 1..Len(reqs) :
       /\ reqs[r].st = "waiting"
       /\ Len(reqs[r].tasks) = Len(reqs[r].batch)
       /\ Settled(reqs[r].tasks)
       /\ reqs' = [reqs EXCEPT ![r] = respond(variant, reqs[r])]
       /\ UNCHANGED <<variant, now, cache, lastSet, metricVars>>

\* ------------------------------------------------- one request, cold start
InitApi ==
    /\ variant \in Variants
    /\ now = 0 /\ cache = {} /\ reqs = <<>> /\ lastSet = {}
    /\ op = "none" /\ arg = <<>> /\ ret = <<>>

Next ==
    \/ reqs = <<>> /\ PriceRequestOn(AssetClasses \cup {"bonds"}, PeriodTokens)
    \/ reqs = <<>> /\ RankRequest
    \/ UpstreamRespondsFrom("all")
    \/ Respond

Spec == InitApi /\ [][Next]_vars

\* ------------------------------- server.js under repeated, overlapping lookups
\* The clock moves in steps of a little over half the TTL.
ClockStep == (stdTTL \div 2) + 1

Tick ==
    /\ now + ClockStep <= MaxTicks * ClockStep
    /\ now' = now + ClockStep
    /\ UNCHANGED <<variant, cache, reqs, lastSet, metricVars>>

InitCache ==
    /\ variant = "server"
    /\ now = 0 /\ cache = {} /\ reqs = <<>> /\ lastSet = {}
    /\ op = "none" /\ arg = <<>> /\ ret = <<>>

NextCache ==
    \/ Len(reqs) < MaxRequests /\ PriceRequestOn(AssetClasses, {""})
    \/ UpstreamRespondsFrom("cache")
    \/ Respond
    \/ Tick

SpecCache == InitCache /\ [][NextCache]_vars

\* ----------------------------------- one request, providers that may stay silent
\* A provider need not ever answer; a timer that was set does fire, and a
\* handler whose awaits have all settled does resume.
NextLive ==
    \/ reqs = <<>> /\ PriceRequestOn(AssetClasses, {""})
    \/ /\ reqs = <<>> /\ RankRequest
       /\ reqs'[1].limitTok = Num(1) /\ reqs'[1].periodTok = ""
       /\ reqs'[1].volTok = Absent
    \/ UpstreamRespondsFrom("cache")
    \/ TimeoutFires
    \/ Respond

SpecLive ==
    InitApi /\ [][NextLive]_vars /\ WF_vars(TimeoutFires) /\ WF_vars(Respond)

\* =================================================== metrics specification
Symbols == <<"s1", "s2", "s3", "s4", "s5">>

Quote(i, p) ==
    [symbol |-> Symbols[i], prices |-> p, current_price |-> <<p[Len(p)]>>]

\* Quotes come from successful fetches, so their series are never empty.
QuoteLists ==
    UNION { { [i \in 1..n |-> Quote(i, f[i])] : f \in [1..n -> SeriesPool \ {<<>>}] }
            : n \in 0..MaxQuotes }

Thresholds == {0, 2, 40, 50}

\* Rates objects of up to MaxQuotes days, listed in any order: each day holds
\* a rate or lacks the quoted currency.
RateRows ==
    UNION { { [i \in 1..n |-> IF k[i] = 0 THEN NoRate(d[i]) ELSE Rate(d[i], k[i])]
              : d \in {f \in [1..n -> 1..n] : \A i, j \in 1..n : f[i] = f[j] => i = j},
                k \in [1..n -> 0..2] }
            : n \in 1..MaxQuotes }

MetricArgs ==
    [fn : {"series"}, prices : SeriesPool]
    \cup [fn : {"rank"}, data : QuoteLists, limit : 1..(MaxQuotes + 1)]
    \cup [fn : {"forex"}, rows : RateRows]
    \cup {a \in [fn : {"rank2"}, data : QuoteLists, limit : 1..MaxQuotes,
                 inner : 1..(MaxQuotes + 1)] : a.limit <= a.inner}
    \cup [fn : {"stable"}, data : QuoteLists, limit : 1..(MaxQuotes + 1),
          threshold : Thresholds]

InitMetrics ==
    /\ variant \in Variants
    /\ now = 0 /\ cache = {} /\ reqs = <<>> /\ lastSet = {}
    /\ op = "none"
    /\ arg \in MetricArgs
    /\ ret = <<>>

CallCalculateChange ==
    /\ op = "none" /\ arg.fn = "series"
    /\ op' = "calculateChange"
    /\ ret' = calculateChange(variant, arg.prices)
    /\ UNCHANGED <<apiVars, arg>>

CallCalculateVolatility ==
    /\ op = "none" /\ arg.fn = "series"
    /\ op' = "calculateVolatility"
    /\ ret' = calculateVolatility(variant, arg.prices)
    /\ UNCHANGED <<apiVars, arg>>

CallGetGainers ==
    /\ op = "none" /\ arg.fn = "rank"
    /\ op' = "getGainers"
    /\ ret' = getGainers(variant, arg.data, arg.limit)
    /\ UNCHANGED <<apiVars, arg>>

CallGetLosers ==
    /\ op = "none" /\ arg.fn = "rank"
    /\ op' = "getLosers"
    /\ ret' = getLosers(variant, arg.data, arg.limit)
    /\ UNCHANGED <<apiVars, arg>>

CallGetStable ==
    /\ op = "none" /\ arg.fn = "stable"
    /\ op' = "getStable"
    /\ ret' = getStable(variant, arg.data, arg.limit, arg.threshold)
    /\ UNCHANGED <<apiVars, arg>>

\* getGainers(getGainers(data, inner), limit)
CallGetGainersTwice ==
    /\ op = "none" /\ arg.fn = "rank2"
    /\ op' = "getGainersTwice"
    /\ ret' = getGainers(variant, getGainers(variant, arg.data, arg.inner), arg.limit)
    /\ UNCHANGED <<apiVars, arg>>

\* fetchForexPrice(pair, period) when the provider answers with these rates
CallFetchForexPrice ==
    /\ op = "none" /\ arg.fn = "forex"
    /\ op' = "fetchForexPrice"
    /\ ret' = fetchForexPrice(variant, Rows(arg.rows)).v
    /\ UNCHANGED <<apiVars, arg>>

NextMetrics ==
    \/ CallCalculateChange
    \/ CallCalculateVolatility
    \/ CallGetGainers
    \/ CallGetLosers
    \/ CallGetStable
    \/ CallGetGainersTwice
    \/ CallFetchForexPrice

SpecMetrics == InitMetrics /\ [][NextMetrics]_vars

\* ================================================= /api/assets deployments
\* Two further deployments serve /api/assets, /api/top-gainers, /api/top-losers:
\*   "ticker"   src/unnamed/part_000 lines 1-256 (Binance, Bitget, Yahoo per symbol)
\*   "chunked"  src/unnamed/part_001 (Yahoo quotes in chunks)
\* Here reqs holds the requests in flight and the one answered last, and the
\* clock stands still: every request falls within the TTL of what is cached.
AssetVariants == {"ticker", "chunked"}

defaultSymbols ==
    <<"BTC-USD", "ETH-USD", "SOL-USD", "DOGE-USD", "ADA-USD",
      "AAPL", "TSLA", "MSFT", "GOOGL", "AMZN", "NVDA",
      "EURUSD=X", "GBPUSD=X", "USDJPY=X">>

\* The tracked list, cut to its first crypto symbol and its first stock.
trackedSymbols == <<defaultSymbols[1], defaultSymbols[6]>>

\* req.query.symbols, split at the commas; <<>> stands for an absent parameter.
SymbolsTokens == {<<>>, <<"ETH-USD">>, <<"TSLA", "BTC-USD">>}

Categories == {"all", "gainers"}

detectAssetType(symbol) ==
    IF symbol \in {"BTC-USD", "ETH-USD", "SOL-USD", "DOGE-USD", "ADA-USD"} THEN "crypto"
    ELSE IF symbol \in {"EURUSD=X", "GBPUSD=X", "USDJPY=X"} THEN "forex"
    ELSE "stock"

\* changePercent is <<>> when null or undefined and <<n>> when a number.
Asset(symbol, changePercent, source) ==
    [symbol |-> symbol, price |-> 1, changePercent |-> changePercent,
     type |-> detectAssetType(symbol), source |-> source]

\* A provider's answer to one call: it throws (network or HTTP error), it
\* refuses (Bitget: a body whose code is not "00000" or that has no close), or
\* it delivers; cp is the regularMarketChangePercent Yahoo reports.
Fails == [kind |-> "throw", cp |-> <<>>]
Refuses == [kind |-> "refused", cp |-> <<>>]
Delivers(cp) == [kind |-> "ok", cp |-> cp]

\* The adapters return <<asset>>, or <<>> for null.
fetchBinance(symbol, ans) ==
    IF ans.kind = "ok" THEN <<Asset(symbol, <<>>, "binance")>> ELSE <<>>

fetchBitget(symbol, ans) ==
    IF ans.kind = "ok" THEN <<Asset(symbol, <<>>, "bitget")>> ELSE <<>>

fetchYahoo(symbol, ans) ==
    IF ans.kind = "ok" THEN <<Asset(symbol, ans.cp, "yahoo")>> ELSE <<>>

\* A fallback that asks the secondary exchange whatever the primary returned.
fallbackAlways(asset) == "bitget"

\* if (!asset) asset = await fetchBitget(symbol)
fallback(asset) == IF asset = <<>> THEN "bitget" ELSE "push"

chunkSize == 50

\* cache key of fetchAssetData
assetsKey(v, symbols) == IF v = "ticker" THEN <<"assets", symbols>> ELSE <<"assets">>

\* The provider call the loop of fetchAssetData makes at position idx.
stageAt(v, list, idx) ==
    IF idx > Len(list) THEN "end"
    ELSE IF v = "chunked" THEN "quote"
    ELSE IF detectAssetType(list[idx]) = "crypto" THEN "binance"
    ELSE "yahoo"

\* symbols.slice(i, i + chunkSize)
Chunk(list, idx) == SubSeq(list, idx, Min(idx + chunkSize - 1, Len(list)))

\* What yahooFinance.quote(chunk) can deliver: for every symbol of the chunk a
\* quote with a rising or falling change, or no quote.
ChunkQuotes(chunk) ==
    { LET all == [i \in 1..Len(chunk) |->
                    [a |-> Asset(chunk[i], IF f[i] = "up" THEN <<1>> ELSE <<0 - 1>>, ""),
                     p |-> f[i] # "none"]]
          got == SelectSeq(all, LAMBDA x : x.p)
      IN [i \in 1..Len(got) |-> got[i].a]
      : f \in [1..Len(chunk) -> {"none", "up", "down"}] }

\* The answers a pending call can get.
CallAnswers(stage) ==
    IF stage = "binance" THEN {Fails, Delivers(<<>>)}
    ELSE IF stage = "bitget" THEN {Fails, Refuses, Delivers(<<>>)}
    ELSE {Fails, Delivers(<<1>>), Delivers(<<0 - 1>>)}

\* One turn of the loop of the ticker fetchAssetData, from a provider's answer on.
stepTicker(req, ans) ==
    LET symbol == req.list[req.idx]
        asset == IF req.stage = "binance" THEN fetchBinance(symbol, ans)
                 ELSE IF req.stage = "bitget" THEN fetchBitget(symbol, ans)
                 ELSE fetchYahoo(symbol, ans)
        log == Append(req.log, [provider |-> req.stage, idx |-> req.idx,
                                ok |-> asset # <<>>])
    IN IF req.stage = "binance" /\ fallback(asset) = "bitget"
       THEN [req EXCEPT !.log = log, !.stage = "bitget"]
       ELSE [req EXCEPT !.log = log,
                        !.results = IF asset = <<>> THEN @ ELSE Append(@, asset[1]),
                        !.idx = @ + 1,
                        !.stage = stageAt("ticker", req.list, req.idx + 1)]

\* One turn of the loop of the chunked fetchAssetData: quotes is <<>> when the
\* call threw.
stepChunked(req, threw, quotes) ==
    [req EXCEPT !.log = Append(@, [provider |-> "quote", idx |-> req.idx, ok |-> ~threw]),
                !.results = IF threw THEN @ ELSE @ \o quotes,
                !.idx = @ + chunkSize,
                !.stage = stageAt("chunked", req.list, req.idx + chunkSize)]

IsNumber(a) == a.changePercent # <<>>

\* /api/assets: filter by category
categoryFilter(assets, category) ==
    IF category = "gainers"
    THEN SelectSeq(assets, LAMBDA a : IsNumber(a) /\ a.changePercent[1] > 0)
    ELSE IF category = "losers"
    THEN SelectSeq(assets, LAMBDA a : IsNumber(a) /\ a.changePercent[1] < 0)
    ELSE IF category = "stable"
    THEN SelectSeq(assets, LAMBDA a : IsNumber(a) /\ a.changePercent[1] = 0)
    ELSE assets

ComesBefore(a, b, dir) ==
    IF dir = "desc" THEN a.changePercent[1] > b.changePercent[1]
    ELSE a.changePercent[1] < b.changePercent[1]

\* .sort((a, b) => b.changePercent - a.changePercent) on numbers: a stable sort.
RECURSIVE sortByChange(_, _)
sortByChange(s, dir) ==
    IF Len(s) < 2 THEN s
    ELSE LET rest == sortByChange(SubSeq(s, 1, Len(s) - 1), dir)
             a == s[Len(s)]
             k == Cardinality({i \in 1..Len(rest) : ~ComesBefore(a, rest[i], dir)})
         IN SubSeq(rest, 1, k) \o <<a>> \o SubSeq(rest, k + 1, Len(rest))

topCount == 5

\* /api/top-gainers and /api/top-losers
topMovers(assets, route) ==
    IF route = "top-gainers"
    THEN slice(sortByChange(SelectSeq(assets,
                 LAMBDA a : IsNumber(a) /\ a.changePercent[1] > 0), "desc"), topCount)
    ELSE slice(sortByChange(SelectSeq(assets,
                 LAMBDA a : IsNumber(a) /\ a.changePercent[1] < 0), "asc"), topCount)

\* The handler once fetchAssetData has returned assets.
answerAssets(v, req, assets, fromCache) ==
    LET partial == v = "chunked" /\ req.route = "assets" /\ assets = <<>>
        items == IF req.route = "assets" THEN categoryFilter(assets, req.category)
                 ELSE topMovers(assets, req.route)
    IN [req EXCEPT !.st = "done", !.stage = "end", !.status = 200,
                   !.fromCache = fromCache,
                   !.reply = IF partial THEN "partial" ELSE "success",
                   !.items = IF partial THEN <<>> ELSE items]

\* The requests still being served.
InFlight == SelectSeq(reqs, LAMBDA q : q.st # "done")

\* A request arrives: the handler runs up to the first provider call, or, on a
\* cache hit, to its reply.
AssetsRequest ==
    /\ Len(InFlight) < MaxInFlight
    /\ \E route \in {"assets", "top-gainers", "top-losers"},
          tok \in SymbolsTokens, category \in Categories :
          /\ route # "assets" => (tok = <<>> /\ category = "all")
          /\ LET list == IF route = "assets" /\ tok # <<>> THEN tok ELSE trackedSymbols
                 key == assetsKey(variant, list)
                 cached == cacheGet(cache, key, now)
                 req == [route |-> route, tok |-> tok, category |-> category,
                         list |-> list, idx |-> 1,
                         stage |-> stageAt(variant, list, 1),
                         results |-> <<>>, log |-> <<>>, st |-> "fetching",
                         status |-> 0, fromCache |-> FALSE, reply |-> "",
                         items |-> <<>>]
             IN /\ reqs' = Append(InFlight,
                                  IF cached # <<>>
                                  THEN answerAssets(variant, req, cached[1], TRUE)
                                  ELSE req)
                /\ cache' = cacheAfterGet(cache, {key}, now)
    /\ UNCHANGED <<variant, now, lastSet, metricVars>>

\* The request r moves to next; the request answered before it is forgotten.
Moved(r, next) ==
    LET marked == [reqs EXCEPT ![r] = [next EXCEPT !.st = "moved"]]
        kept == SelectSeq(marked, LAMBDA q : q.st # "done")
    IN [i \in 1..Len(kept) |-> IF kept[i].st = "moved" THEN next ELSE kept[i]]

\* The loop of request r has taken one turn and stands at stepped; after the
\* last turn the result is stored and the handler replies.
Continue(r, stepped) ==
    LET over == stepped.stage = "end"
    IN /\ reqs' = Moved(r, IF over
                           THEN answerAssets(variant, stepped, stepped.results, FALSE)
                           ELSE stepped)
       /\ cache' = IF over
                   THEN cacheSet(cache, assetsKey(variant, stepped.list),
                                 stepped.results, now)
                   ELSE cache
       /\ UNCHANGED <<variant, now, lastSet, metricVars>>

\* A provider answers the call a request is waiting for.
ProviderAnswers ==
    \E r \in 1..Len(reqs) :
       /\ reqs[r].st = "fetching"
       /\ IF reqs[r].stage = "quote"
          THEN \/ Continue(r, stepChunked(reqs[r], TRUE, <<>>))
               \/ \E quotes \in ChunkQuotes(Chunk(reqs[r].list, reqs[r].idx)) :
                     Continue(r, stepChunked(reqs[r], FALSE, quotes))
          ELSE \E ans \in CallAnswers(reqs[r].stage) :
                  Continue(r, stepTicker(reqs[r], ans))

InitAssets ==
    /\ variant \in AssetVariants
    /\ now = 0 /\ cache = {} /\ reqs = <<>> /\ lastSet = {}
    /\ op = "none" /\ arg = <<>> /\ ret = <<>>

NextAssets ==
    \/ AssetsRequest
    \/ ProviderAnswers

SpecAssets == InitAssets /\ [][NextAssets]_vars

\* ================================================================== claims
Tasks == {reqs[r].tasks[i] : <<r, i>> \in {<<r, i>> \in (1..Len(reqs)) \X (1..MaxUniverse + 1) :
                                             i <= Len(reqs[r].tasks)}}

Returned == {t \in Tasks : t.st = "fulfilled"}

PriceResultOk(d) ==
    IF d.error # Null
    THEN d.candles = <<>> /\ d.current_price = <<>>
    ELSE d.candles # <<>> /\ d.current_price = <<d.candles[Len(d.candles)].c>>

\* C1: every PriceResult an adapter returns, fresh or from the cache, has
\* either an error with no candles and no current price, or no error with
\* candles and the last candle's close as current price.
C1_PriceResultInvariant == \A t \in Returned : PriceResultOk(t.data)

Ranking(r) == reqs[r].route # "price"

\* C2: a lookup of a key that starts less than a TTL after a lookup of the same
\* key stored its result, error-carrying or not, makes no provider call; a
\* lookup that starts when no result was stored, or more than a TTL after the
\* last one was, makes a provider call.
C2_CacheRoundTrip ==
    \A t \in Tasks :
       /\ (\E at \in t.prevSet : t.startedAt - at < stdTTL) => ~t.upstream
       /\ (\A at \in t.prevSet : t.startedAt - at > stdTTL) => t.upstream

C2_Witness ==
    \E r1, r2 \in 1..Len(reqs) :
       /\ r1 < r2
       /\ reqs[r1].st = "done" /\ reqs[r2].st = "done"
       /\ reqs[r1].tasks[1].upstream /\ reqs[r1].tasks[1].data.error # Null
       /\ reqs[r2].tasks[1].symbol = reqs[r1].tasks[1].symbol
       /\ reqs[r2].tasks[1].startedAt > reqs[r1].tasks[1].startedAt
       /\ ~reqs[r2].tasks[1].upstream /\ reqs[r2].status = 404
       /\ reqs[r2].tasks[1].data = reqs[r1].tasks[1].data

\* C3: a ranking request with limit L over a universe of S symbols calls the
\* adapter for exactly the first min(3L, S) symbols, once each, and returns
\* between 0 and min(3L, S) quotes.
C3_BatchSize ==
    \A r \in 1..Len(reqs) :
       (Ranking(r) /\ reqs[r].st = "done" /\ reqs[r].status = 200) =>
          LET universe == mapping(reqs[r].asset_type)
              n == Min(3 * reqs[r].limit, Len(universe))
          IN /\ Len(reqs[r].tasks) = n
             /\ \A i \in 1..n : reqs[r].tasks[i].symbol = universe[i]
             /\ Len(reqs[r].fetched) <= n

\* C4: the quotes fetchTopAssets returns are exactly the symbols of the batch
\* whose adapter call succeeded, each with the closes of its own candles; a
\* failed call neither stops the batch nor touches another symbol's quote.
C4_PartialFailureIsolation ==
    \A r \in 1..Len(reqs) :
       (Ranking(r) /\ reqs[r].st = "done" /\ reqs[r].status = 200) =>
          LET tasks == reqs[r].tasks
              fetched == reqs[r].fetched
              good(t) == t.st = "fulfilled" /\ t.data.error = Null /\ t.data.candles # <<>>
          IN /\ Len(tasks) = Len(reqs[r].batch)
             /\ \A i \in 1..Len(tasks) :
                   good(tasks[i]) <=>
                      \E j \in 1..Len(fetched) : fetched[j].symbol = tasks[i].symbol
             /\ \A j \in 1..Len(fetched) :
                   \E i \in 1..Len(tasks) :
                      /\ tasks[i].symbol = fetched[j].symbol
                      /\ good(tasks[i])
                      /\ Len(fetched[j].prices) = Len(tasks[i].data.candles)
                      /\ \A k \in 1..Len(fetched[j].prices) :
                            fetched[j].prices[k] = tasks[i].data.candles[k].c
                      /\ fetched[j].current_price = tasks[i].data.current_price
             /\ \A j, k \in 1..Len(fetched) :
                   fetched[j].symbol = fetched[k].symbol => j = k

C4_Witness ==
    \E r \in 1..Len(reqs) :
       /\ Ranking(r) /\ reqs[r].st = "done" /\ reqs[r].fetched # <<>>
       /\ \E i \in 1..Len(reqs[r].tasks) : reqs[r].tasks[i].answer = "failure"
       /\ \E i \in 1..(Len(reqs[r].tasks) - 1) :
             /\ reqs[r].tasks[i].answer = "failure"
             /\ reqs[r].tasks[i + 1].answer = "data"

\* C5: whatever the provider does (exception, timeout, empty or malformed
\* payload), the adapter call completes by returning a PriceResult with error
\* set; it never throws or rejects.
C5_FailuresBecomeErrors ==
    \A t \in Tasks :
       t.answer = "failure" => (t.st = "fulfilled" /\ t.data.error # Null)

\* C6: a request naming an unsupported asset class is answered 4xx with a
\* message and makes no adapter call, on every endpoint.
C6_UnsupportedClassRejected ==
    \A r \in 1..Len(reqs) :
       reqs[r].asset_type \notin {"stocks", "crypto", "forex"} =>
          /\ reqs[r].tasks = <<>>
          /\ reqs[r].st = "done" =>
                (reqs[r].status >= 400 /\ reqs[r].status <= 499 /\ reqs[r].body.error # "")

InvalidPeriod(r) ==
    /\ reqs[r].periodTok # ""
    /\ reqs[r].periodTok \notin
          (IF reqs[r].route = "stable" THEN {"1d", "1w"} ELSE {"1h", "1d", "1w"})

C8_ThresholdClamped ==
    \A r \in 1..Len(reqs) :
       (reqs[r].route = "stable" /\ reqs[r].st = "done" /\ reqs[r].status = 200) =>
          LET tok == reqs[r].volTok
              threshold == IF tok.k = "num"
                           THEN (IF tok.n < 0 THEN 0 ELSE IF tok.n > 50 THEN 50 ELSE tok.n)
                           ELSE 2
          IN /\ reqs[r].vol_threshold = threshold
             /\ \A i \in 1..Len(reqs[r].body.items) :
                   JsLess(reqs[r].body.items[i].volatility_pct,
                          Fin(threshold * threshold, 1))

\* C9: calculateChange returns 0 for a series with fewer than 2 points or with
\* first element 0, and (last - first) / first * 100 for every other series.
C9_ZeroGuardOrPercent ==
    op = "calculateChange" =>
       LET p == arg.prices
       IN IF Len(p) < 2 \/ p[1] = 0
          THEN ret = Zero
          ELSE JsEq(ret, Fin((p[Len(p)] - p[1]) * 100, p[1]))

\* C10: getGainers returns min(limit, |quotes|) distinct input quotes ordered
\* by descending pct_change, with no sign filter: no returned quote precedes
\* one with a larger change, and no quote left out has a larger change than a
\* returned one.
C10_TopByChange ==
    op = "getGainers" =>
       LET data == arg.data
           pct(q) == calculateChange(variant, q.prices)
           returned == {ret[i].symbol : i \in 1..Len(ret)}
       IN /\ Len(ret) = Min(arg.limit, Len(data))
          /\ Cardinality(returned) = Len(ret)
          /\ \A i \in 1..Len(ret) :
                \E j \in 1..Len(data) :
                   /\ data[j].symbol = ret[i].symbol
                   /\ ret[i].prices = data[j].prices
                   /\ ret[i].pct_change = pct(data[j])
          /\ \A i, j \in 1..Len(ret) :
                i < j => ~JsLess(ret[i].pct_change, ret[j].pct_change)
          /\ \A j \in 1..Len(data) :
                data[j].symbol \notin returned =>
                   \A i \in 1..Len(ret) : ~JsGreater(pct(data[j]), ret[i].pct_change)

Positive(v, q) == JsGreater(calculateChange(v, q.prices), Zero)

Positives(v, data) == Cardinality({i \in 1..Len(data) : Positive(v, data[i])})

\* C11: ranking twice, first to an inner limit and then to a limit no larger,
\* returns what ranking once to that limit returns (same quotes, same order),
\* for every list with at least limit positive-change quotes, ties included.
C11_RankingIdempotent ==
    (op = "getGainersTwice" /\ Positives(variant, arg.data) >= arg.limit) =>
       ret = getGainers(variant, arg.data, arg.limit)

C11_Witness ==
    /\ op = "getGainersTwice" /\ variant = "server"
    /\ arg.limit < arg.inner /\ arg.inner < Len(arg.data)
    /\ Positives(variant, arg.data) >= arg.limit
    /\ Len(ret) = arg.limit
    /\ \E i, j \in 1..Len(arg.data) :
          /\ i # j /\ arg.data[i].prices = arg.data[j].prices
          /\ Positive(variant, arg.data[i])
          /\ ret[1].symbol = arg.data[i].symbol

\* C12: every provider call carries a timeout, so a request, once received, is
\* eventually answered even when a provider never responds: no adapter call
\* and no batch hangs, for stocks as for the other classes.
C12_NeverHangs ==
    (Len(reqs) >= 1) ~> (Len(reqs) >= 1 /\ reqs[1].st = "done")

\* C13: while an unexpired entry for a key is in the cache, no cache.set
\* replaces it: each key is written at most once per TTL window, under every
\* interleaving of concurrent lookups.
C13_WriteOncePerWindow ==
    [][\A e \in cache :
          ~Expired(e, now) => \A f \in cache' : f.key = e.key => f = e]_vars

Entries(r, i) == {j \in 1..Len(reqs[r].log) : reqs[r].log[j].idx = i}

\* C14: in the ticker fetchAssetData, for every crypto symbol of the list the
\* first call is to Binance; Bitget is called only directly after a Binance
\* call for that symbol that returned no asset; after a Binance call that
\* returned one, Bitget is not called and the asset's source is binance; and
\* the symbol is in the result exactly when one of the two returned an asset.
C14_PrimaryThenFallback ==
    \A r \in 1..Len(reqs) :
       variant = "ticker" =>
          LET log == reqs[r].log
              list == reqs[r].list
              inResult(i) == \E k \in 1..Len(reqs[r].results) :
                                reqs[r].results[k].symbol = list[i]
              sourceOf(i) == {reqs[r].results[k].source :
                                 k \in {n \in 1..Len(reqs[r].results) :
                                           reqs[r].results[n].symbol = list[i]}}
          IN /\ \A j \in 1..Len(log) :
                   log[j].provider = "bitget" =>
                      /\ j > 1
                      /\ log[j - 1] = [provider |-> "binance", idx |-> log[j].idx,
                                       ok |-> FALSE]
             /\ \A i \in 1..Len(list) :
                   (detectAssetType(list[i]) = "crypto" /\ i < reqs[r].idx) =>
                      LET first == CHOOSE j \in Entries(r, i) :
                                      \A m \in Entries(r, i) : j <= m
                      IN /\ Entries(r, i) # {}
                         /\ log[first].provider = "binance"
                         /\ log[first].ok =>
                               (Entries(r, i) = {first} /\ sourceOf(i) = {"binance"})
                         /\ inResult(i) <=> \E j \in Entries(r, i) : log[j].ok

C14_Witness ==
    \E r \in 1..Len(reqs) :
       /\ variant = "ticker" /\ reqs[r].st = "done" /\ ~reqs[r].fromCache
       /\ \E j \in 1..Len(reqs[r].log) :
             reqs[r].log[j].provider = "bitget" /\ reqs[r].log[j].ok
       /\ \E k \in 1..Len(reqs[r].items) : reqs[r].items[k].source = "bitget"

Named(list) == {list[i] : i \in 1..Len(list)}

\* C15: a request to /api/assets that names its symbols is answered with items
\* for those symbols only, and /api/top-gainers and /api/top-losers are
\* answered with items of the default list only, whatever requests came before.
C15_AnswersTheListAsked ==
    \A r \in 1..Len(reqs) :
       reqs[r].st = "done" =>
          \A k \in 1..Len(reqs[r].items) :
             reqs[r].items[k].symbol \in
                (IF reqs[r].route = "assets" /\ reqs[r].tok # <<>>
                 THEN Named(reqs[r].tok) ELSE Named(trackedSymbols))

RateOn(rows, date) ==
    LET row == CHOOSE x \in {rows[i] : i \in 1..Len(rows)} : x.date = date
    IN IF row.kind = "rate" THEN row.rate ELSE 0

\* C16: for a non-empty rates answer fetchForexPrice returns one candle per
\* date, in ascending date order however the provider lists the dates; each
\* candle has high = low = close = the rate of its date; the first open is its
\* own close and every later open is the previous close, or its own close
\* when the previous close is 0.
C16_ForexCandles ==
    op = "fetchForexPrice" =>
       LET rows == arg.rows
           c == ret.candles
       IN /\ ret.error = Null
          /\ Len(c) = Len(rows)
          /\ {c[i].timestamp : i \in 1..Len(c)} = {rows[i].date : i \in 1..Len(rows)}
          /\ \A i, j \in 1..Len(c) : i < j => c[i].timestamp < c[j].timestamp
          /\ \A i \in 1..Len(c) :
                /\ c[i].c = RateOn(rows, c[i].timestamp)
                /\ c[i].h = c[i].c /\ c[i].l = c[i].c
                /\ c[i].o = IF i > 1 /\ c[i - 1].c # 0 THEN c[i - 1].c ELSE c[i].c

Position(list, x) == CHOOSE i \in 1..Len(list) : list[i] = x

\* C17: the quotes fetchTopAssets returns hold no symbol twice and stand in the
\* order of the configured universe, in whatever order the adapter calls
\* completed; the ranked reply is the ranking of the settled results taken in
\* that order, so it does not depend on the interleaving.
C17_UniverseOrder ==
    \A r \in 1..Len(reqs) :
       (Ranking(r) /\ reqs[r].st = "done" /\ reqs[r].status = 200) =>
          LET universe == mapping(reqs[r].asset_type)
              fetched == reqs[r].fetched
              inOrder == SelectSeq(reqs[r].tasks,
                            LAMBDA t : t.st = "fulfilled" /\ t.data.error = Null
                                          /\ t.data.candles # <<>>)
              quotes == [i \in 1..Len(inOrder) |->
                           [symbol |-> inOrder[i].symbol,
                            prices |-> [j \in 1..Len(inOrder[i].data.candles) |->
                                          inOrder[i].data.candles[j].c],
                            current_price |-> inOrder[i].data.current_price]]
          IN /\ \A j \in 1..Len(fetched) :
                   \E i \in 1..Len(universe) : universe[i] = fetched[j].symbol
             /\ \A j, k \in 1..Len(fetched) :
                   j < k => Position(universe, fetched[j].symbol)
                               < Position(universe, fetched[k].symbol)
             /\ reqs[r].body.items =
                   (IF reqs[r].route = "gainers"
                    THEN getGainers(variant, quotes, reqs[r].limit)
                    ELSE IF reqs[r].route = "losers"
                    THEN getLosers(variant, quotes, reqs[r].limit)
                    ELSE getStable(variant, quotes, reqs[r].limit, reqs[r].vol_threshold))

C17_Witness ==
    \E r \in 1..Len(reqs) :
       /\ Ranking(r) /\ reqs[r].st = "done" /\ variant = "server"
       /\ reqs[r].outOfOrder
       /\ Len(reqs[r].fetched) >= 2
       /\ Len(reqs[r].body.items) >= 1

====
